---- MODULE Spec2Model ----
(***************************************************************************)
(* A model of fiml (src/fiml/__init__.py): the video/subtitle matcher      *)
(* (Video.find_all), the persisted watch counter (Context), one episode    *)
(* cycle (Workflow.run) and the driver loop (main).                        *)
(*                                                                         *)
(* A path is the sequence of its code points, so that Python's string      *)
(* order is the lexicographic order of the sequences.  Paths are written   *)
(* relative to the scanned root: the common prefix does not change their   *)
(* order.  The absent subtitle (None) is the empty sequence: no path is    *)
(* empty, and the code tests it by truthiness only.                        *)
(***************************************************************************)
EXTENDS Integers, Sequences, FiniteSets, TLC

VARIABLES
    file,          \* the state file <root>/.fiml on disk
    dir,           \* the other paths under the root on disk
    pathIsDir,     \* whether the path argument names a directory
    batch,         \* args.batch
    noconfirm,     \* args.noconfirm
    pc,            \* the position of the process
    data,          \* Context.data
    all_files,     \* the list handed to Video.find_all
    videos,        \* the result of Video.find_all
    current,       \* Workflow.run's local 'current'
    further_watch, \* main's local 'further_watch'
    cycles,        \* how many times main has called Workflow.run
    returns,       \* the values Workflow.run has returned, oldest first
    trace,         \* what the current cycle asked and played, oldest first
    cStart,        \* the counter when the current cycle began
    loaded,        \* Context.data as it was when __init__ returned
    saved,         \* Context.data as it was at the last write_file
    other          \* a second process on the same root, while it is not running

vars == <<file, dir, pathIsDir, batch, noconfirm, pc, data, all_files, videos,
          current, further_watch, cycles, returns, trace, cStart, loaded, saved,
          other>>

(***************************************************************************)
(* Bounds                                                                  *)
(***************************************************************************)
MaxFiles == 4

MaxCounter == 4

MaxPairs == 2

MaxCycles == 2

(***************************************************************************)
(* Paths                                                                   *)
(***************************************************************************)
\* "b.mp4", "a.srt", "a.mkv", "B.mp4", "b.srt", "n.txt" as code points
UniverseSeq ==
    << <<98, 46, 109, 112, 52>>,
       <<97, 46, 115, 114, 116>>,
       <<97, 46, 109, 107, 118>>,
       <<66, 46, 109, 112, 52>>,
       <<98, 46, 115, 114, 116>>,
       <<110, 46, 116, 120, 116>> >>

Universe == {UniverseSeq[i] : i \in DOMAIN UniverseSeq}

\* ".fiml"
FimlPath == <<46, 102, 105, 109, 108>>

None == <<>>

Min(a, b) == IF a < b THEN a ELSE b

\* str.__lt__: code point by code point, a proper prefix is smaller
RECURSIVE LexLess(_, _)
LexLess(p, q) ==
    IF q = <<>> THEN FALSE
    ELSE IF p = <<>> THEN TRUE
    ELSE IF Head(p) # Head(q) THEN Head(p) < Head(q)
    ELSE LexLess(Tail(p), Tail(q))

\* the extension mimetypes.guess_type looks up: what follows the last dot,
\* a leading dot not counting; None when there is none
Extension(p) ==
    LET dots == {i \in DOMAIN p : p[i] = 46 /\ i > 1}
    IN  IF dots = {} THEN None
        ELSE LET last == CHOOSE i \in dots : \A j \in dots : j <= i
             IN  SubSeq(p, last + 1, Len(p))

\* mimetypes.guess_type as <<type, subtype>>; <<>> is None
guess_type(p) ==
    LET ext == Extension(p)
    IN  IF ext = <<109, 112, 52>> THEN <<"video", "mp4">>
        ELSE IF ext = <<109, 107, 118>> THEN <<"video", "x-matroska">>
        ELSE IF ext = <<115, 114, 116>> THEN <<"application", "x-subrip">>
        ELSE IF ext = <<116, 120, 116>> THEN <<"text", "plain">>
        ELSE <<>>

is_video(filename) ==
    LET t == guess_type(filename) IN t # <<>> /\ t[1] = "video"

is_sub(filename) ==
    guess_type(filename) = <<"application", "x-subrip">>

\* one step of sorted(): x put before the first member that is not smaller
RECURSIVE Insert(_, _)
Insert(x, s) ==
    IF s = <<>> THEN <<x>>
    ELSE IF LexLess(Head(s), x) THEN <<Head(s)>> \o Insert(x, Tail(s))
    ELSE <<x>> \o s

RECURSIVE sorted(_)
sorted(s) == IF s = <<>> THEN <<>> ELSE Insert(Head(s), sorted(Tail(s)))

\* resize that cuts and never fills
resize_no_fill(seq, n, default) == SubSeq(seq, 1, Min(n, Len(seq)))

resize(seq, n, default) ==
    LET cut == SubSeq(seq, 1, Min(n, Len(seq)))
    IN  cut \o [i \in 1..(n - Len(cut)) |-> default]

find_all(files) ==
    LET vids == sorted(SelectSeq(files, is_video))
        subs == resize(sorted(SelectSeq(files, is_sub)), Len(vids), None)
    IN  [i \in 1..Min(Len(vids), Len(subs)) |->
            [index |-> i - 1, video |-> vids[i], sub |-> subs[i]]]

(***************************************************************************)
(* The state file and Context                                              *)
(*                                                                         *)
(* A dict is its keys in insertion order and its values; a JSON text is    *)
(* the sequence of the <<key, value>> members of one object, which may     *)
(* repeat a key.  Two dicts are equal in Python when their val are equal.  *)
(***************************************************************************)
EmptyDict == [keys |-> <<>>, val |-> <<>>]

\* d[k] = v
DictSet(d, k, v) ==
    [keys |-> IF k \in DOMAIN d.val THEN d.keys ELSE Append(d.keys, k),
     val  |-> [x \in (DOMAIN d.val) \cup {k} |-> IF x = k THEN v ELSE d.val[x]]]

\* json.load: members in order, a repeated key keeps its last value
RECURSIVE json_load(_)
json_load(text) ==
    IF text = <<>> THEN EmptyDict
    ELSE LET m == text[Len(text)]
         IN  DictSet(json_load(SubSeq(text, 1, Len(text) - 1)), m[1], m[2])

\* json.dump: one member per key, in insertion order
json_dump(d) == [i \in 1..Len(d.keys) |-> <<d.keys[i], d.val[d.keys[i]]>>]

NoFile == [exists |-> FALSE, text |-> <<>>]

\* Context.counter (getter)
counter(d) == d.val["counter"]

\* Context.counter (setter)
counter_set(d, value) == DictSet(d, "counter", value)

\* the file as open(mode='w') leaves it: there, and of zero bytes
ZeroBytes == [exists |-> TRUE, text |-> <<>>]

\* whether json.load accepts the text: something is there and no member is cut
\* short (the object without members, "{}", is not among the files modelled)
parses(text) == text # <<>> /\ \A i \in DOMAIN text : Len(text[i]) = 2

\* Context.read_file: whether json.load raises JSONDecodeError
read_file_raises(f) == f.exists /\ ~parses(f.text)

\* Context.read_file: the new self.data, given the old one
read_file(d, f) == IF ~f.exists THEN d ELSE json_load(f.text)

\* a constructor whose counter starts at 1
Context_from_one(f) == read_file(counter_set(EmptyDict, 1), f)

\* Context.__init__: self.data once the constructor has returned
Context(f) == read_file(counter_set(EmptyDict, 0), f)

\* a save of the counter alone
write_file_counter_only(d) == [exists |-> TRUE, text |-> << <<"counter", counter(d)>> >>]

\* Context.write_file: the file once written
write_file(d) == [exists |-> TRUE, text |-> json_dump(d)]

\* a destructor that writes a fresh state instead of the data it holds
del_Context_fresh(d) == write_file(counter_set(EmptyDict, 0))

\* Context.__del__
del_Context(d) == write_file(d)

(***************************************************************************)
(* Inputs                                                                  *)
(***************************************************************************)
ExtraValues == {1, 2}

Members == {<<"counter", c>> : c \in 0..MaxCounter} \cup {<<"lang", v>> : v \in ExtraValues}

\* JSON objects of at most MaxPairs members that hold a counter
ValidTexts ==
    {t \in UNION {[1..k -> Members] : k \in 1..MaxPairs} :
        \E i \in DOMAIN t : t[i][1] = "counter"}

\* the texts write_file produces: no key twice
WrittenTexts == {t \in ValidTexts : \A i, j \in DOMAIN t : t[i][1] = t[j][1] => i = j}

\* the lists without repetition of at most MaxFiles paths
Listings ==
    {l \in UNION {[1..k -> Universe] : k \in 0..MaxFiles} :
        \A i, j \in DOMAIN l : l[i] = l[j] => i = j}

\* the directories scanned: the first k paths of UniverseSeq
Dirs == {{UniverseSeq[i] : i \in 1..k} : k \in 0..Min(MaxFiles, Len(UniverseSeq))}

\* the most episodes a scanned directory holds
MaxVideos == Cardinality({p \in Universe : is_video(p)})

\* Path.rglob('*'): every order of the paths under the root
RECURSIVE Orders(_)
Orders(S) ==
    IF S = {} THEN {<<>>}
    ELSE UNION {{<<x>> \o o : o \in Orders(S \ {x})} : x \in S}

rglob(d, f) == Orders(d \cup IF f.exists THEN {FimlPath} ELSE {})

NoEpisode == [index |-> -1, video |-> None, sub |-> None]

\* no second process
NoSession == [pc |-> "none"]

Idle ==
    /\ data = EmptyDict
    /\ videos = <<>>
    /\ current = -1
    /\ further_watch = FALSE
    /\ cycles = 0
    /\ returns = <<>>
    /\ trace = <<>>
    /\ cStart = -1
    /\ loaded = EmptyDict
    /\ saved = EmptyDict
    /\ other = NoSession

(***************************************************************************)
(* The matcher alone: Video.find_all on every list                         *)
(***************************************************************************)
MatchInit ==
    /\ all_files \in Listings
    /\ pc = "match"
    /\ file = NoFile
    /\ dir = {}
    /\ pathIsDir = TRUE
    /\ batch = FALSE
    /\ noconfirm = FALSE
    /\ Idle

FindAll ==
    /\ pc = "match"
    /\ videos' = find_all(all_files)
    /\ pc' = "matched"
    /\ UNCHANGED <<other, file, dir, pathIsDir, batch, noconfirm, data, all_files, current,
                   further_watch, cycles, returns, trace, cStart, loaded, saved>>

MatchNext == FindAll

SpecMatch == MatchInit /\ [][MatchNext]_vars

(***************************************************************************)
(* The program: main, Workflow.run                                         *)
(***************************************************************************)
Init ==
    /\ pathIsDir \in BOOLEAN
    /\ batch \in BOOLEAN
    /\ noconfirm \in BOOLEAN
    /\ IF pathIsDir
       THEN /\ dir \in Dirs
            /\ file \in {NoFile} \cup {[exists |-> TRUE, text |-> t] : t \in WrittenTexts}
       ELSE /\ dir = {}
            /\ file = NoFile
    /\ all_files = <<>>
    /\ pc = "start"
    /\ Idle

\* non-interactive mode taking the last option, exit, instead of the default
choose_option_exit(options, default) ==
    IF noconfirm THEN {Len(options) - 1} ELSE 0..(Len(options) - 1)

\* non-interactive mode taking the first option instead of the default
choose_option_first(options, default) ==
    IF noconfirm THEN {0} ELSE 0..(Len(options) - 1)

\* Workflow.choose_option: the indices it can return
choose_option(options, default) ==
    IF noconfirm THEN {default} ELSE 0..(Len(options) - 1)

\* Workflow.ask_confirm: the answers it can return (default = True)
ask_confirm == IF noconfirm THEN {TRUE} ELSE BOOLEAN

\* the counter set to len(videos) whatever it was
no_new_episode_always(d, n) == counter_set(d, n)

\* Workflow.run, "if no new episode": the counter is brought down to len(videos)
no_new_episode(d, n) == IF counter(d) >= n THEN counter_set(d, n) ELSE d

\* Workflow.run, "exit option"
exit_option(pick, n) == pick = n

\* the reset question asked after every choice
not_default_option_always(d, pick) == TRUE

\* Workflow.run, "not default option": whether the reset question is asked
not_default_option(d, pick) == counter(d) # pick

\* a reset that does not wait for the answer
reset_counter_always(d, pick, yes) == counter_set(d, pick)

\* a confirmed reset that leaves the counter alone
reset_counter_lost(d, pick, yes) == d

\* Workflow.run: the reset, when the question is answered yes
reset_counter(d, pick, yes) == IF yes THEN counter_set(d, pick) ELSE d

\* the completion question asked after every play
default_option_always(d, pick) == TRUE

\* Workflow.run, "default option": whether the completion question is asked
default_option(d, pick) == pick = counter(d)

\* a confirmed completion that leaves the counter alone
increment_twice(d, yes) == IF yes THEN counter_set(d, counter(d) + 2) ELSE d

\* a confirmed completion that leaves the counter alone
increment_lost(d, yes) == d

\* Workflow.run, "increament": the advance, when the question is answered yes
increment(d, yes) == IF yes THEN counter_set(d, counter(d) + 1) ELSE d

\* the loop continued on batch alone
batch_alone(ret) == batch

\* the loop continued on either
or_batch(ret) == ret \/ batch

\* main: further_watch = workflow.run() and args.batch
and_batch(ret) == ret /\ batch

Event(ev, idx, ans, ep) ==
    [ev |-> ev, idx |-> idx, ans |-> ans, ep |-> ep, cnt |-> counter(data)]

\* main up to the loop: the early return, or the Workflow and its Context; when
\* read_file raises, Context.__init__ has set the counter to 0 and the exception
\* leaves main
Start ==
    /\ pc = "start"
    /\ IF ~pathIsDir
       THEN /\ pc' = "done"
            /\ UNCHANGED <<data, loaded, further_watch>>
       ELSE IF read_file_raises(file)
       THEN /\ data' = counter_set(EmptyDict, 0)
            /\ pc' = "raised"
            /\ UNCHANGED <<loaded, further_watch>>
       ELSE /\ data' = Context(file)
            /\ loaded' = data'
            /\ further_watch' = TRUE
            /\ pc' = "loop"
    /\ UNCHANGED <<other, file, dir, pathIsDir, batch, noconfirm, all_files, videos, current,
                   cycles, returns, trace, cStart, saved>>

\* Workflow.run from its call to the episode prompt, in a process that has run
\* fewer than limit cycles
ScanUpTo(limit) ==
    /\ pc = "loop"
    /\ further_watch
    /\ cycles < limit
    /\ \E listing \in rglob(dir, file) :
          LET found == find_all(listing)
          IN  /\ videos' = found
              /\ data' = no_new_episode(data, Len(found))
    /\ cStart' = counter(data)
    /\ cycles' = cycles + 1
    /\ trace' = <<>>
    /\ current' = -1
    /\ pc' = "choose"
    /\ UNCHANGED <<other, file, dir, pathIsDir, batch, noconfirm, all_files, further_watch,
                   returns, loaded, saved>>

Scan == ScanUpTo(MaxCycles)

\* Workflow.run returns ret to main's loop
Return(ret) ==
    /\ returns' = Append(returns, ret)
    /\ further_watch' = and_batch(ret)
    /\ pc' = "loop"

\* Video.watch starts the player on videos[current']
Watch(tr) ==
    /\ trace' = Append(tr, [Event("watch", current', FALSE, videos[current' + 1])
                              EXCEPT !.cnt = counter(data')])
    /\ pc' = "play"

\* the episode prompt answers; Workflow.run up to the next question or the player
Choose ==
    /\ pc = "choose"
    /\ \E pick \in choose_option([i \in 1..(Len(videos) + 1) |-> i], counter(data)) :
          LET asked == Append(trace, Event("choose", pick, FALSE, NoEpisode))
          IN  /\ current' = pick
              /\ IF exit_option(pick, Len(videos))
                 THEN /\ trace' = asked
                      /\ Return(FALSE)
                      /\ UNCHANGED data
                 ELSE IF not_default_option(data, pick)
                 THEN /\ trace' = asked
                      /\ pc' = "reset"
                      /\ UNCHANGED <<data, returns, further_watch>>
                 ELSE /\ UNCHANGED <<data, returns, further_watch>>
                      /\ Watch(asked)
    /\ UNCHANGED <<other, file, dir, pathIsDir, batch, noconfirm, all_files, videos, cycles,
                   cStart, loaded, saved>>

\* the reset question answers
AnswerReset ==
    /\ pc = "reset"
    /\ \E yes \in ask_confirm :
          /\ data' = reset_counter(data, current, yes)
          /\ UNCHANGED current
          /\ Watch(Append(trace, Event("reset", current, yes, NoEpisode)))
    /\ UNCHANGED <<other, file, dir, pathIsDir, batch, noconfirm, all_files, videos,
                   further_watch, cycles, returns, cStart, loaded, saved>>

\* the player exits, with status 0 or not; Workflow.run up to the completion question
PlayerExit ==
    /\ pc = "play"
    /\ \E status \in {0, 1} :
          IF default_option(data, current)
          THEN /\ pc' = "complete"
               /\ UNCHANGED <<returns, further_watch>>
          ELSE Return(FALSE)
    /\ UNCHANGED <<other, file, dir, pathIsDir, batch, noconfirm, data, all_files, videos,
                   current, cycles, trace, cStart, loaded, saved>>

\* the completion question answers
AnswerComplete ==
    /\ pc = "complete"
    /\ \E yes \in ask_confirm :
          /\ trace' = Append(trace, Event("complete", current, yes, NoEpisode))
          /\ data' = increment(data, yes)
          /\ Return(yes)
    /\ UNCHANGED <<other, file, dir, pathIsDir, batch, noconfirm, all_files, videos, current,
                   cycles, cStart, loaded, saved>>

\* KeyboardInterrupt at a blocking call: a prompt that waits, or the player
Interrupt ==
    /\ \/ pc \in {"choose", "reset", "complete"} /\ ~noconfirm
       \/ pc = "play"
    /\ pc' = "end"
    /\ UNCHANGED <<other, file, dir, pathIsDir, batch, noconfirm, data, all_files, videos,
                   current, further_watch, cycles, returns, trace, cStart, loaded, saved>>

\* main's loop ends
LoopExit ==
    /\ pc = "loop"
    /\ ~further_watch
    /\ pc' = "end"
    /\ UNCHANGED <<other, file, dir, pathIsDir, batch, noconfirm, data, all_files, videos,
                   current, further_watch, cycles, returns, trace, cStart, loaded, saved>>

\* main returns: the Workflow and its Context are dropped
Exit ==
    /\ pc = "end"
    /\ file' = del_Context(data)
    /\ saved' = data
    /\ pc' = "done"
    /\ UNCHANGED <<other, dir, pathIsDir, batch, noconfirm, data, all_files, videos, current,
                   further_watch, cycles, returns, trace, cStart, loaded>>

Next ==
    \/ Start
    \/ Scan
    \/ Choose
    \/ AnswerReset
    \/ PlayerExit
    \/ AnswerComplete
    \/ Interrupt
    \/ LoopExit
    \/ Exit

Spec == Init /\ [][Next]_vars

(***************************************************************************)
(* The program where things fail: a state file that does not parse, no     *)
(* player to launch, a save that is refused, a kill in the middle of a     *)
(* save.  write_file is two steps here: open(mode='w'), which empties the  *)
(* file, and json.dump with the close that flushes it.                     *)
(***************************************************************************)
\* the files json.load rejects: empty, or cut in the middle of a member
Unparseable ==
    {ZeroBytes}
        \cup {[exists |-> TRUE, text |-> << <<"counter">> >>]}
        \cup {[exists |-> TRUE, text |-> << <<"counter", c>>, <<"lang">> >>] :
                 c \in 1..MaxCounter}

FaultInit ==
    /\ pathIsDir = TRUE
    /\ batch \in BOOLEAN
    /\ noconfirm \in BOOLEAN
    /\ dir \in Dirs
    /\ file \in {NoFile} \cup {[exists |-> TRUE, text |-> t] : t \in WrittenTexts}
                \cup Unparseable
    /\ all_files = <<>>
    /\ pc = "start"
    /\ Idle

\* an exception nobody catches: the traceback, exit status 1, and the Context
\* dropped on the way out
Uncaught ==
    /\ pc = "raised"
    /\ file' = del_Context(data)
    /\ saved' = data
    /\ pc' = "failed"
    /\ UNCHANGED <<other, dir, pathIsDir, batch, noconfirm, data, all_files, videos,
                   current, further_watch, cycles, returns, trace, cStart, loaded>>

\* Video.watch: subprocess.run finds no mpv and raises FileNotFoundError, which
\* is no CalledProcessError
PlayerMissing ==
    /\ pc = "play"
    /\ pc' = "raised"
    /\ UNCHANGED <<other, file, dir, pathIsDir, batch, noconfirm, data, all_files,
                   videos, current, further_watch, cycles, returns, trace, cStart,
                   loaded, saved>>

\* Context.write_file, line 98: the file is opened for writing
SaveOpen ==
    /\ pc = "end"
    /\ file' = ZeroBytes
    /\ pc' = "writing"
    /\ UNCHANGED <<other, dir, pathIsDir, batch, noconfirm, data, all_files, videos,
                   current, further_watch, cycles, returns, trace, cStart, loaded,
                   saved>>

\* Context.write_file, line 99 and the close
SaveDump ==
    /\ pc = "writing"
    /\ file' = write_file(data)
    /\ saved' = data
    /\ pc' = "done"
    /\ UNCHANGED <<other, dir, pathIsDir, batch, noconfirm, data, all_files, videos,
                   current, further_watch, cycles, returns, trace, cStart, loaded>>

\* Context.__del__ when write_file raises OSError, at the open (the file is as
\* it was) or at the flush (the file is empty): Python reports an exception
\* ignored in __del__ and main returns as ever
SaveRefused ==
    /\ pc = "end"
    /\ \E at \in {"open", "flush"} : file' = IF at = "open" THEN file ELSE ZeroBytes
    /\ pc' = "done"
    /\ UNCHANGED <<other, dir, pathIsDir, batch, noconfirm, data, all_files, videos,
                   current, further_watch, cycles, returns, trace, cStart, loaded,
                   saved>>

\* the process is killed between the open and the dump
Kill ==
    /\ pc = "writing"
    /\ pc' = "killed"
    /\ UNCHANGED <<other, file, dir, pathIsDir, batch, noconfirm, data, all_files,
                   videos, current, further_watch, cycles, returns, trace, cStart,
                   loaded, saved>>

FaultNext ==
    \/ Start
    \/ Scan
    \/ Choose
    \/ AnswerReset
    \/ PlayerExit
    \/ AnswerComplete
    \/ Interrupt
    \/ LoopExit
    \/ Uncaught
    \/ PlayerMissing
    \/ SaveOpen
    \/ SaveDump
    \/ SaveRefused
    \/ Kill

SpecFault == FaultInit /\ [][FaultNext]_vars

(***************************************************************************)
(* The program unattended: --noconfirm --batch, so that no prompt waits.   *)
(* The process takes its steps and each player started exits or is         *)
(* interrupted; a process may run one cycle for every episode and one more *)
(***************************************************************************)
UnattendedInit == Init /\ noconfirm /\ batch

ScanUnattended == ScanUpTo(MaxCycles + MaxVideos)

UnattendedNext ==
    \/ Start
    \/ ScanUnattended
    \/ Choose
    \/ PlayerExit
    \/ AnswerComplete
    \/ Interrupt
    \/ LoopExit
    \/ Exit

SpecUnattended ==
    UnattendedInit /\ [][UnattendedNext]_vars /\ WF_vars(UnattendedNext)

(***************************************************************************)
(* Two processes on one directory, each running main once with the same    *)
(* arguments and without --batch: one cycle each. The variables of the     *)
(* program hold the process that takes the steps; other holds the locals   *)
(* of the process that waits. Reading the state file and writing it are    *)
(* single steps here                                                       *)
(***************************************************************************)
Session ==
    [pc |-> pc, data |-> data, videos |-> videos, current |-> current,
     further_watch |-> further_watch, cycles |-> cycles, returns |-> returns,
     trace |-> trace, cStart |-> cStart, loaded |-> loaded, saved |-> saved]

NotStarted ==
    [pc |-> "start", data |-> EmptyDict, videos |-> <<>>, current |-> -1,
     further_watch |-> FALSE, cycles |-> 0, returns |-> <<>>, trace |-> <<>>,
     cStart |-> -1, loaded |-> EmptyDict, saved |-> EmptyDict]

TwoInit ==
    /\ pathIsDir = TRUE
    /\ batch = FALSE
    /\ noconfirm \in BOOLEAN
    /\ dir \in Dirs
    /\ file \in {NoFile} \cup {write_file(counter_set(EmptyDict, c)) : c \in 0..MaxCounter}
    /\ all_files = <<>>
    /\ pc = NotStarted.pc
    /\ data = NotStarted.data
    /\ videos = NotStarted.videos
    /\ current = NotStarted.current
    /\ further_watch = NotStarted.further_watch
    /\ cycles = NotStarted.cycles
    /\ returns = NotStarted.returns
    /\ trace = NotStarted.trace
    /\ cStart = NotStarted.cStart
    /\ loaded = NotStarted.loaded
    /\ saved = NotStarted.saved
    /\ other = NotStarted

\* the scheduler lets the other process run, unless it has ended
Switch ==
    /\ other.pc \notin {"none", "done"}
    /\ other' = Session
    /\ pc' = other.pc
    /\ data' = other.data
    /\ videos' = other.videos
    /\ current' = other.current
    /\ further_watch' = other.further_watch
    /\ cycles' = other.cycles
    /\ returns' = other.returns
    /\ trace' = other.trace
    /\ cStart' = other.cStart
    /\ loaded' = other.loaded
    /\ saved' = other.saved
    /\ UNCHANGED <<file, dir, pathIsDir, batch, noconfirm, all_files>>

TwoNext ==
    \/ Start
    \/ Scan
    \/ Choose
    \/ AnswerReset
    \/ PlayerExit
    \/ AnswerComplete
    \/ Interrupt
    \/ LoopExit
    \/ Exit
    \/ Switch

SpecTwo == TwoInit /\ [][TwoNext]_vars

(***************************************************************************)
(* Context alone: constructed, its counter set, dropped, constructed again *)
(* on the file it wrote; the first file is any JSON object with a counter  *)
(***************************************************************************)
StoreInit ==
    /\ file \in {NoFile} \cup {[exists |-> TRUE, text |-> t] : t \in ValidTexts}
    /\ pc = "new"
    /\ dir = {}
    /\ pathIsDir = TRUE
    /\ batch = FALSE
    /\ noconfirm = FALSE
    /\ all_files = <<>>
    /\ Idle

\* Context.__init__
ContextInit ==
    /\ pc = "new"
    /\ data' = Context(file)
    /\ loaded' = data'
    /\ pc' = "live"
    /\ UNCHANGED <<other, file, dir, pathIsDir, batch, noconfirm, all_files, videos, current,
                   further_watch, cycles, returns, trace, cStart, saved>>

\* Context.counter = value
ContextCounter ==
    /\ pc = "live"
    /\ \E value \in 0..MaxCounter : data' = counter_set(data, value)
    /\ UNCHANGED <<other, file, dir, pathIsDir, batch, noconfirm, pc, all_files, videos,
                   current, further_watch, cycles, returns, trace, cStart, loaded, saved>>

\* Context.__del__
ContextDel ==
    /\ pc = "live"
    /\ file' = del_Context(data)
    /\ saved' = data
    /\ pc' = "new"
    /\ UNCHANGED <<other, dir, pathIsDir, batch, noconfirm, data, all_files, videos, current,
                   further_watch, cycles, returns, trace, cStart, loaded>>

StoreNext == ContextInit \/ ContextCounter \/ ContextDel

SpecStore == StoreInit /\ [][StoreNext]_vars

(***************************************************************************)
(* Vocabulary of the properties                                            *)
(***************************************************************************)
Range(seq) == {seq[i] : i \in DOMAIN seq}

\* how many members of S are smaller than x
Rank(x, S) == Cardinality({y \in S : LexLess(y, x)})

\* the positions in the current cycle's trace of the events of one kind
At(kind) == {i \in DOMAIN trace : trace[i].ev = kind}

\* the current cycle has taken the user's choice
Chosen == cycles > 0 /\ trace # <<>>

\* ... and the choice was an episode, not the exit option
EpisodeChosen == Chosen /\ trace[1].idx < Len(videos)

ExitChosen == Chosen /\ trace[1].idx = Len(videos)

\* the last call of Workflow.run has returned
Returned == cycles > 0 /\ Len(returns) = cycles /\ pc \in {"loop", "end", "done"}

\* the counter moved by the "+= 1" of the current cycle
Incremented ==
    \E i \in At("complete") : trace[i].ans /\ counter(data) = trace[i].cnt + 1

(***************************************************************************)
(* C1. Video.find_all pairs by position after two independent sorts: for   *)
(* every list of distinct paths, episode i holds the i-th smallest video   *)
(* and the i-th smallest subtitle, or no subtitle when there are fewer     *)
(* subtitles than i + 1; there is one episode per video, indexed 0, 1, ... *)
(* so that surplus subtitles are dropped; the result is a function of the  *)
(* set of the paths.                                                       *)
(***************************************************************************)
C1_PairByPosition ==
    pc = "matched" =>
        LET V == {p \in Range(all_files) : is_video(p)}
            U == {p \in Range(all_files) : is_sub(p)}
        IN  /\ Len(videos) = Cardinality(V)
            /\ \A i \in DOMAIN videos :
                  /\ videos[i].index = i - 1
                  /\ videos[i].video \in V
                  /\ Rank(videos[i].video, V) = i - 1
                  /\ IF i <= Cardinality(U)
                     THEN videos[i].sub \in U /\ Rank(videos[i].sub, U) = i - 1
                     ELSE videos[i].sub = None

\* three videos listed out of order and one subtitle
C1_Witness ==
    /\ pc = "matched"
    /\ all_files = SubSeq(UniverseSeq, 1, 4)
    /\ Len(videos) = 3
    /\ videos[1].video = UniverseSeq[4]
    /\ videos[1].sub = UniverseSeq[2]
    /\ videos[3].sub = None

(***************************************************************************)
(* C2. In a cycle in which an episode is chosen, the reset question is     *)
(* asked exactly when the chosen index differs from the counter at that    *)
(* moment; answered yes, the counter becomes the chosen index, answered no *)
(* it is unchanged; asked or not, the player is started exactly once, on   *)
(* the episode with the chosen index.                                      *)
(***************************************************************************)
C2_ResetQuestion ==
    (EpisodeChosen /\ (pc \in {"play", "complete"} \/ Returned)) =>
        LET sel == trace[1]
        IN  /\ Cardinality(At("reset")) = (IF sel.idx # sel.cnt THEN 1 ELSE 0)
            /\ Cardinality(At("watch")) = 1
            /\ \A w \in At("watch") :
                  /\ trace[w].ep = videos[sel.idx + 1]
                  /\ trace[w].ep.index = sel.idx
                  /\ \A r \in At("reset") :
                        /\ r < w
                        /\ trace[r].cnt = sel.cnt
                        /\ trace[w].cnt = (IF trace[r].ans THEN sel.idx ELSE sel.cnt)
                  /\ At("reset") = {} => trace[w].cnt = sel.cnt

\* episode 2 chosen at counter 0, the reset declined, the player running
C2_Witness ==
    /\ pc = "play"
    /\ Len(trace) = 3
    /\ trace[1].idx = 2 /\ trace[1].cnt = 0
    /\ trace[2].ev = "reset" /\ ~trace[2].ans
    /\ trace[3].ev = "watch" /\ trace[3].ep.index = 2
    /\ counter(data) = 0

C4_ResetThenAdvance ==
    (Returned /\ \E r \in At("reset") : trace[r].ans) =>
        /\ trace[1].idx # trace[1].cnt
        /\ Cardinality(At("complete")) = 1
        /\ \A c \in At("complete") :
              trace[c].ans =>
                  /\ counter(data) = trace[1].idx + 1
                  /\ returns[Len(returns)] = TRUE

\* episode 2 chosen at counter 0, reset and completion confirmed: counter 3
C4_Witness ==
    /\ Returned
    /\ cStart = 0
    /\ Len(trace) = 4
    /\ trace[1].idx = 2
    /\ trace[2].ev = "reset" /\ trace[2].ans
    /\ trace[4].ev = "complete" /\ trace[4].ans
    /\ counter(data) = 3
    /\ returns[Len(returns)] = TRUE

(***************************************************************************)
(* C5. A cycle that starts with the counter above the number of episodes   *)
(* lowers it to exactly that number before the choice is presented, and    *)
(* this step never raises the counter; once the process has ended, the     *)
(* next load does not find the old larger value.                           *)
(***************************************************************************)
C5_CounterClamp ==
    /\ pc = "choose" =>
          /\ counter(data) <= cStart
          /\ cStart > Len(videos) => counter(data) = Len(videos)
          /\ cStart <= Len(videos) => counter(data) = cStart
    /\ (pc = "done" /\ cycles > 0) =>
          \A old \in {counter(loaded), cStart} :
              old > Len(videos) => counter(Context(file)) < old

\* counter 4 over three episodes, the process ended with 3 in the file
C5_Witness ==
    /\ pc = "done"
    /\ cycles = 1
    /\ counter(loaded) = 4
    /\ Len(videos) = 3
    /\ counter(Context(file)) = 3

C7_ExitChangesNothing ==
    (ExitChosen /\ cStart < Len(videos)) =>
        /\ Len(trace) = 1
        /\ counter(data) = cStart
        /\ cycles = 1 => data = loaded
        /\ Returned
        /\ returns[Len(returns)] = FALSE
        /\ ~further_watch
        /\ pc = "done" => json_load(file.text) = data

\* batch mode, exit taken at counter 1 of three episodes, the process ended
C7_Witness ==
    /\ pc = "done"
    /\ batch
    /\ ExitChosen
    /\ cStart = 1
    /\ Len(videos) = 3
    /\ cycles = 1

(***************************************************************************)
(* C8. Workflow.run returns true exactly when it incremented the counter   *)
(* in that cycle; main starts another cycle exactly when batch is set and  *)
(* the cycle before returned true: without batch one cycle runs, with      *)
(* batch the loop ends at the first cycle that did not advance the         *)
(* counter, whatever is left to watch.                                     *)
(***************************************************************************)
C8_BatchLoop ==
    /\ Returned =>
          /\ returns[Len(returns)] = Incremented
          /\ further_watch = (batch /\ returns[Len(returns)])
    /\ \A i \in 1..(cycles - 1) : batch /\ returns[i] = TRUE
    /\ (pc \in {"end", "done"} /\ Returned) => ~(batch /\ returns[Len(returns)])
    /\ (pc \in {"end", "done"} /\ pathIsDir /\ ~batch) => cycles = 1

\* batch: a second cycle ran and did not advance, episodes left unwatched
C8_Witness ==
    /\ pc = "done"
    /\ batch
    /\ returns = <<TRUE, FALSE>>
    /\ counter(data) < Len(videos)

(***************************************************************************)
(* C9. Persistence round-trips: the state loaded after a save equals the   *)
(* state that was saved, whether a state file existed at first or not, so  *)
(* that load, save, load yields the first load's state; the saved file     *)
(* holds the counter exactly and every other key of the loaded state with  *)
(* the value it was loaded with.                                           *)
(***************************************************************************)
C9_RoundTrip ==
    /\ (pc = "live" /\ saved # EmptyDict) => loaded.val = saved.val
    /\ (pc = "new" /\ saved # EmptyDict) =>
          /\ file.exists
          /\ \A i \in DOMAIN file.text :
                file.text[i][1] = "counter" => file.text[i][2] = counter(data)
          /\ \A k \in DOMAIN loaded.val :
                \E i \in DOMAIN file.text :
                    /\ file.text[i][1] = k
                    /\ k # "counter" => file.text[i][2] = loaded.val[k]
          /\ \A i, j \in DOMAIN file.text : file.text[i][1] = file.text[j][1] => i = j

\* a file with another key before the counter, loaded, the counter set to 3,
\* saved and loaded again
C9_Witness ==
    /\ pc = "live"
    /\ saved # EmptyDict
    /\ loaded.keys = <<"lang", "counter">>
    /\ loaded.val["lang"] = 2
    /\ counter(loaded) = 3
    /\ data = loaded

(***************************************************************************)
(* C10. With no state file, the load yields counter = 0 and creates no     *)
(* file; the file comes into existence only by the save when the Context   *)
(* is dropped.                                                             *)
(***************************************************************************)
C10_FirstRun ==
    [][/\ (pc = "start" /\ pathIsDir /\ ~file.exists) =>
              /\ ~file'.exists
              /\ data' = counter_set(EmptyDict, 0)
              /\ counter(data') = 0
       /\ (~file.exists /\ file'.exists) =>
              /\ pc = "end" /\ pc' = "done"
              /\ file' = write_file(data)]_vars

\* loaded without a file: counter 0, still no file, a cycle under way
C10_Witness ==
    /\ pc = "choose"
    /\ ~file.exists
    /\ loaded = counter_set(EmptyDict, 0)
    /\ Len(videos) = 2

(***************************************************************************)
(* C11. When the state file exists and does not parse, the process fails   *)
(* before any cycle, and the failed load never leaves a fresh state of     *)
(* counter 0 in the place of the file.                                     *)
(***************************************************************************)
C11_NoSilentReset ==
    (pc \in {"raised", "failed"} /\ loaded = EmptyDict) =>
        /\ cycles = 0
        /\ file # write_file(counter_set(EmptyDict, 0))

(***************************************************************************)
(* C12. A save is all or nothing: at every point of write_file, and after  *)
(* a kill in the middle of it, the file holds a complete state, so that    *)
(* the next load does not meet a file it cannot parse.                     *)
(***************************************************************************)
C12_AtomicSave ==
    pc \in {"writing", "killed"} => ~read_file_raises(file)

(***************************************************************************)
(* C13. A cycle that played an episode has persisted the state when        *)
(* Workflow.run returns: the counter in the state file equals the counter  *)
(* in memory.                                                              *)
(***************************************************************************)
C13_SavedOnReturn ==
    (pc = "loop" /\ Returned /\ At("watch") # {}) =>
        /\ file.exists
        /\ counter(json_load(file.text)) = counter(data)

(***************************************************************************)
(* C14. A player failure never aborts the cycle: the player exiting with a *)
(* status other than 0, or not launching at all, Video.watch returns and   *)
(* the cycle goes on to the completion question: no exception leaves a     *)
(* cycle in which the player was started.                                  *)
(***************************************************************************)
C14_PlayerFailure ==
    pc \in {"raised", "failed"} => (cycles = 0 /\ At("watch") = {})

(***************************************************************************)
(* C15. A KeyboardInterrupt at a prompt or during the play abandons the    *)
(* cycle: nothing more is asked or played, the process ends, and the state *)
(* written at its end is the state in memory at the interrupt: a reset     *)
(* confirmed before it is stored, an advance not confirmed is not.         *)
(***************************************************************************)
Interrupted == pc \in {"end", "done"} /\ cycles > 0 /\ Len(returns) = cycles - 1

C15_Interrupt ==
    /\ [](Interrupted =>
             /\ At("complete") = {}
             /\ counter(data) =
                   (IF \E r \in At("reset") : trace[r].ans
                    THEN trace[1].idx
                    ELSE Min(cStart, Len(videos)))
             /\ pc = "done" => file = write_file(data) /\ json_load(file.text) = data)
    /\ [][Interrupted =>
             /\ pc = "end" /\ pc' = "done"
             /\ data' = data /\ trace' = trace /\ cycles' = cycles]_vars

\* episode 2 chosen at counter 0, the reset confirmed, the play interrupted:
\* the file holds counter 2
C15_Witness ==
    /\ Interrupted
    /\ pc = "done"
    /\ cStart = 0
    /\ Len(trace) = 3
    /\ trace[2].ev = "reset" /\ trace[2].ans
    /\ trace[3].ev = "watch"
    /\ counter(json_load(file.text)) = 2

(***************************************************************************)
(* C16. A failure to write the state file is never silent: a process whose *)
(* state was not saved does not end as a run that succeeded.               *)
(***************************************************************************)
C16_SaveFailureLoud ==
    pc = "done" => file = write_file(data)

(***************************************************************************)
(* C17 as stated: within a cycle the counter changes only by a confirmed   *)
(* completion (+1) or a confirmed reset (to the selected index); no other  *)
(* step of a cycle, the scan included, changes it.                         *)
(***************************************************************************)
InCycle == pc \in {"loop", "choose", "reset", "play", "complete"}

ConfirmedCompletion ==
    /\ pc = "complete"
    /\ trace'[Len(trace')].ev = "complete" /\ trace'[Len(trace')].ans
    /\ counter(data') = counter(data) + 1

ConfirmedReset ==
    /\ pc = "reset"
    /\ \E r \in DOMAIN trace' : trace'[r].ev = "reset" /\ trace'[r].ans
    /\ counter(data') = current

C17_AsStated ==
    [][(InCycle /\ counter(data') # counter(data)) =>
          (ConfirmedCompletion \/ ConfirmedReset)]_vars

(***************************************************************************)
(* C17 amended: within a cycle the counter changes only by a confirmed     *)
(* completion (+1), by a confirmed reset (to the selected index), or, at   *)
(* the start of the cycle, by being lowered to the number of episodes      *)
(* scanned when it was larger; no other step of a cycle changes it.        *)
(***************************************************************************)
LoweredByScan ==
    /\ pc = "loop" /\ pc' = "choose"
    /\ counter(data) > Len(videos')
    /\ counter(data') = Len(videos')

C17_CounterFrame ==
    [][(InCycle /\ counter(data') # counter(data)) =>
          (ConfirmedCompletion \/ ConfirmedReset \/ LoweredByScan)]_vars

\* the scan found two episodes with counter 4 loaded and has lowered it to 2;
\* nothing was asked yet
C17_Witness ==
    /\ pc = "choose"
    /\ trace = <<>>
    /\ cStart = 4
    /\ Len(videos) = 2
    /\ counter(data) = 2
    /\ counter(loaded) = 4

(***************************************************************************)
(* C19. Whatever the cycles and the answers, from a stored counter >= 0:   *)
(* the index that picks the episode to play is an index of the list        *)
(* scanned in that cycle, and when a cycle returns the counter is between  *)
(* 0 and the number of episodes of that scan.                              *)
(***************************************************************************)
C19_IndexAndCounterInRange ==
    /\ \A i \in At("watch") :
          /\ trace[i].idx \in 0..(Len(videos) - 1)
          /\ trace[i].ep = videos[trace[i].idx + 1]
    /\ pc = "play" => current \in 0..(Len(videos) - 1)
    /\ Returned => counter(data) \in 0..Len(videos)

\* the last episode was played and confirmed: the counter returns at its
\* upper end, the number of episodes
C19_Witness ==
    /\ Returned
    /\ Incremented
    /\ At("watch") # {}
    /\ Len(videos) > 1
    /\ counter(data) = Len(videos)

(***************************************************************************)
(* C18. With --noconfirm and --batch, N episodes and a stored counter c,   *)
(* the process terminates; no reset question is asked; cycle k plays       *)
(* episode min(c, N) + k - 1 and no other; a process that was not          *)
(* interrupted ends after N - min(c, N) plays and one cycle that plays     *)
(* nothing, with counter N in memory and in the state file.                *)
(***************************************************************************)
C18_Unattended ==
    /\ [](pc # "reset" /\ At("reset") = {})
    /\ [](Cardinality(At("watch")) <= 1)
    /\ [](\A i \in At("watch") :
             trace[i].idx = Min(counter(loaded), Len(videos)) + cycles - 1)
    /\ []((pc = "done" /\ pathIsDir /\ ~Interrupted) =>
             /\ cycles = Len(videos) - Min(counter(loaded), Len(videos)) + 1
             /\ returns = [k \in 1..cycles |-> k < cycles]
             /\ At("watch") = {}
             /\ counter(data) = Len(videos)
             /\ counter(Context(file)) = Len(videos))
    /\ <>(pc = "done")

\* three episodes from counter 0: three plays, a fourth cycle that plays
\* nothing, counter 3 stored
C18_Witness ==
    /\ pc = "done"
    /\ pathIsDir /\ noconfirm /\ batch
    /\ ~Interrupted
    /\ counter(loaded) = 0
    /\ Len(videos) = 3
    /\ returns = <<TRUE, TRUE, TRUE, FALSE>>
    /\ counter(Context(file)) = 3

====
